---- MODULE Spec2Model ----
(***************************************************************************)
(* Model of the document-retrieval subsystem of CIO_Agent:                 *)
(* backend/utils/vector_store.py (class VectorStore) as used by            *)
(* backend/main.py.                                                        *)
(*                                                                         *)
(* Text is a sequence of one-character strings.  The chunker constants     *)
(* (1000 / 200 / 100 in the source) are scaled down so that texts longer   *)
(* than one chunk stay small; the code's arithmetic on them is kept.       *)
(* TF-IDF weights are abstracted to raw term counts over the fitted        *)
(* vocabulary: the vectors keep their dimension and their position-wise    *)
(* meaning, which is what the store logic depends on.                      *)
(*                                                                         *)
(* The environment can make a write of _save_index or an os.remove of      *)
(* clear raise, and can kill the server process at any point, also in the  *)
(* middle of a write, which leaves that file cut short.  A restarted       *)
(* process constructs the store again from what is on disk.                *)
(*                                                                         *)
(* Specifications:                                                         *)
(*   Spec        the store process as main.py drives it, with persistence  *)
(*               failures and crashes;                                     *)
(*   DirectSpec  the store under a caller that also passes add_document a  *)
(*               metadata argument;                                        *)
(*   ServerSpec  concurrent upload and chat requests on the event loop,    *)
(*               with the files they save under uploads/;                  *)
(*   ChunkSpec   one call of _chunk_text, statement by statement, for a    *)
(*               family of texts and parameter pairs.                      *)
(***************************************************************************)
EXTENDS Integers, Sequences, FiniteSets, TLC

VARIABLES
    pc,          \* position of the server process
    index,       \* self.index
    documents,   \* self.documents
    metadata,    \* self.metadata
    vectorizer,  \* self.vectorizer
    is_trained,  \* self.is_trained
    disk,        \* the four artifacts under store_path
    lastOp,      \* the last API call started (history)
    lastThrew,   \* whether the last completed call raised (history)
    saveFailed,  \* whether a persistence error was swallowed in the last call
    saveStart,   \* the artifacts on disk when the running _save_index began
    result,      \* what the last search / get_stats returned
    crash,       \* what the last crash interrupted (history)
    faults,      \* persistence failures and interrupted saves so far
    chunker,     \* the frame of a running _chunk_text call
    requests,    \* the request handlers of main.py and where each stands
    running,     \* the handler the event loop is running (0: none)
    uploads_dir  \* the files under uploads/ and their bytes

\* the state outside the store process
others == <<chunker, requests, running, uploads_dir>>

\* the store process, its disk and its history
storeVars == <<pc, index, documents, metadata, vectorizer, is_trained, disk,
               lastOp, lastThrew, saveFailed, saveStart, result, crash, faults>>

vars == <<pc, index, documents, metadata, vectorizer, is_trained, disk,
          lastOp, lastThrew, saveFailed, saveStart, result, crash, faults,
          chunker, requests, running, uploads_dir>>

-----------------------------------------------------------------------------
(* Bounds of the model *)

\* most chunks the store holds in a checked run
MaxChunks == 3
\* most persistence failures (a write or a remove that raises, a crash
\* during _save_index) in a checked run
MaxFaults == 2
\* longest text handed to _chunk_text on its own
MaxTextLen == 37
\* most iterations of the chunking loop followed
MaxIterations == 4
\* most requests the server handles at a time
MaxRequests == 3

-----------------------------------------------------------------------------
(* Program constants *)

\* _chunk_text(chunk_size=1000), scaled 1:50
ChunkSize == 20
\* _chunk_text(overlap=200), scaled 1:50
Overlap == 4
\* the "end - 100" look-back of the sentence search, scaled
SentenceLookback == 3
\* search(k=5)
DefaultK == 5

Terminals == {".", "!", "?"}
Whitespace == {" ", "\n", "\r"}
WordChars == {"a", "b"}

Min2(a, b) == IF a <= b THEN a ELSE b
Max2(a, b) == IF a >= b THEN a ELSE b
SetMax(S) == CHOOSE x \in S : \A y \in S : y <= x

-----------------------------------------------------------------------------
(* Python string helpers, 0-based like the source *)

\* text[i] raises IndexError
IndexRaises(text, i) == i >= Len(text) \/ i < -Len(text)

\* text[i]; a negative i counts from the end
At(text, i) == IF i < 0 THEN text[Len(text) + i + 1] ELSE text[i + 1]

\* a slice bound as Python clamps it
SliceBound(i, n) == IF i < 0 THEN Max2(i + n, 0) ELSE Min2(i, n)

\* text[s:e]
Slice(text, s, e) ==
    LET a == SliceBound(s, Len(text))
        b == SliceBound(e, Len(text))
    IN  IF a >= b THEN <<>> ELSE SubSeq(text, a + 1, b)

\* str.strip()
RECURSIVE LStrip(_)
LStrip(s) ==
    IF s # <<>> /\ Head(s) \in Whitespace THEN LStrip(Tail(s)) ELSE s

RECURSIVE RStrip(_)
RStrip(s) ==
    IF s # <<>> /\ s[Len(s)] \in Whitespace
    THEN RStrip(SubSeq(s, 1, Len(s) - 1))
    ELSE s

Strip(s) == RStrip(LStrip(s))

-----------------------------------------------------------------------------
(* VectorStore._chunk_text *)

\* the positions the sentence search visits, from end downwards
ScanRange(start, chunk_size) ==
    LET end == start + chunk_size
    IN  (Max2(start + (chunk_size \div 2), end - SentenceLookback) + 1)..end

\* the visited positions that hold a sentence terminal
ScanFound(text, start, chunk_size) ==
    {i \in ScanRange(start, chunk_size) :
        ~IndexRaises(text, i) /\ At(text, i) \in Terminals}

\* the search reads text[i] beyond the text before it finds a terminal
ScanRaises(text, start, chunk_size) ==
    /\ start + chunk_size < Len(text)
    /\ \E i \in ScanRange(start, chunk_size) :
          /\ IndexRaises(text, i)
          /\ \A j \in ScanFound(text, start, chunk_size) : j < i

\* the end of the window starting at start: the sentence-boundary search
WindowEnd(text, start, chunk_size) ==
    LET end == start + chunk_size
        found == ScanFound(text, start, chunk_size)
    IN  IF end < Len(text) /\ found # {}
        THEN SetMax(found) + 1
        ELSE end

\* mutant: the next window starts right after the end of this one
NextStartSkips(end, overlap) == end + 1

\* start = end - overlap
NextStart(end, overlap) == end - overlap

RECURSIVE ChunkLoop(_, _, _, _, _)
ChunkLoop(text, chunk_size, overlap, start, chunks) ==
    IF ~(start < Len(text))
    THEN chunks
    ELSE LET end == WindowEnd(text, start, chunk_size)
             chunk == Strip(Slice(text, start, end))
         IN  ChunkLoop(text, chunk_size, overlap, NextStart(end, overlap),
                       IF chunk # <<>> THEN Append(chunks, chunk) ELSE chunks)

ChunkTextWith(text, chunk_size, overlap) ==
    IF Len(text) <= chunk_size
    THEN <<text>>
    ELSE ChunkLoop(text, chunk_size, overlap, 0, <<>>)

ChunkText(text) == ChunkTextWith(text, ChunkSize, Overlap)

-----------------------------------------------------------------------------
(* One call of _chunk_text, statement by statement *)

\* no call is running
NoCall ==
    [pc |-> "none", text |-> <<>>, chunk_size |-> 0, overlap |-> 0,
     start |-> 0, chunks |-> <<>>, windows |-> <<>>]

\* the frame on entry; windows records [start, end) of every iteration
\* and whether its chunk was appended (history)
Call(text, chunk_size, overlap) ==
    [NoCall EXCEPT !.pc = "call", !.text = text,
                   !.chunk_size = chunk_size, !.overlap = overlap]

\* the texts chunked: n characters, blanks at the positions of a shape, a
\* sentence terminal at position p (0: none), "a" elsewhere
Shapes == {"none", "edges", "all", "tail"}

BlankAt(n, shape) ==
    CASE shape = "none" -> {}
      [] shape = "edges" -> {1, n}
      [] shape = "all" -> 1..n
      [] shape = "tail" -> {i \in 1..n : i > ChunkSize - Overlap}

TextOf(n, p, shape) ==
    [i \in 1..n |->
        IF i = p THEN "."
        ELSE IF i \in BlankAt(n, shape) THEN " "
        ELSE "a"]

ChunkTexts ==
    {TextOf(n, p, shape) : n \in 0..MaxTextLen, p \in 0..MaxTextLen, shape \in Shapes}

\* (chunk_size, overlap): the defaults, which are all the program passes,
\* and pairs a caller of _chunk_text could pass
ChunkParams == {<<ChunkSize, Overlap>>, <<6, 5>>, <<4, 4>>, <<0, 0>>}

\* if len(text) <= chunk_size: return [text]
ChunkShortText ==
    /\ chunker.pc = "call"
    /\ Len(chunker.text) <= chunker.chunk_size
    /\ chunker' = [chunker EXCEPT !.pc = "returned", !.chunks = <<chunker.text>>]
    /\ UNCHANGED <<storeVars, requests, running, uploads_dir>>

\* chunks = []; start = 0
ChunkEnterLoop ==
    /\ chunker.pc = "call"
    /\ ~(Len(chunker.text) <= chunker.chunk_size)
    /\ chunker' = [chunker EXCEPT !.pc = "loop", !.start = 0, !.chunks = <<>>]
    /\ UNCHANGED <<storeVars, requests, running, uploads_dir>>

\* one iteration of the while loop
ChunkIterate ==
    /\ chunker.pc = "loop"
    /\ chunker.start < Len(chunker.text)
    /\ Len(chunker.windows) < MaxIterations
    /\ LET text == chunker.text
           start == chunker.start
           end == WindowEnd(text, start, chunker.chunk_size)
           chunk == Strip(Slice(text, start, end))
       IN  chunker' =
             IF ScanRaises(text, start, chunker.chunk_size)
             THEN [chunker EXCEPT !.pc = "raised"]
             ELSE [chunker EXCEPT
                     !.chunks = IF chunk # <<>> THEN Append(@, chunk) ELSE @,
                     !.start = NextStart(end, chunker.overlap),
                     !.windows = Append(@, [start |-> start, end |-> end,
                                            kept |-> chunk # <<>>])]
    /\ UNCHANGED <<storeVars, requests, running, uploads_dir>>

\* the while condition fails: return chunks
ChunkReturn ==
    /\ chunker.pc = "loop"
    /\ ~(chunker.start < Len(chunker.text))
    /\ chunker' = [chunker EXCEPT !.pc = "returned"]
    /\ UNCHANGED <<storeVars, requests, running, uploads_dir>>

-----------------------------------------------------------------------------
(* TfidfVectorizer(max_features=1000, stop_words='english') *)
(* Tokens are the maximal runs of two or more word characters (sklearn's  *)
(* token_pattern \b\w\w+\b); no token of the model's alphabet is an       *)
(* English stop word and no vocabulary reaches max_features.              *)

RECURSIVE TokScan(_, _, _)
TokScan(s, cur, acc) ==
    LET flushed == IF Len(cur) >= 2 THEN Append(acc, cur) ELSE acc
    IN  IF s = <<>>
        THEN flushed
        ELSE IF Head(s) \in WordChars
             THEN TokScan(Tail(s), Append(cur, Head(s)), acc)
             ELSE TokScan(Tail(s), <<>>, flushed)

Tokens(text) == TokScan(text, <<>>, <<>>)

CharRank(c) == IF c = "a" THEN 1 ELSE 2

\* t1 < t2 in the lexical order sorted() gives the vocabulary
RECURSIVE TermLess(_, _)
TermLess(t1, t2) ==
    IF t1 = <<>> THEN t2 # <<>>
    ELSE IF t2 = <<>> THEN FALSE
    ELSE IF Head(t1) = Head(t2) THEN TermLess(Tail(t1), Tail(t2))
    ELSE CharRank(Head(t1)) < CharRank(Head(t2))

RECURSIVE SortTerms(_)
SortTerms(S) ==
    IF S = {} THEN <<>>
    ELSE LET m == CHOOSE t \in S : \A u \in S \ {t} : TermLess(t, u)
         IN  <<m>> \o SortTerms(S \ {m})

TermsOf(docs) ==
    UNION {{Tokens(docs[i])[j] : j \in 1..Len(Tokens(docs[i]))} : i \in 1..Len(docs)}

CountOf(term, toks) == Cardinality({j \in 1..Len(toks) : toks[j] = term})

\* one row of the document-term matrix over a fitted vocabulary
Vectorize(vocab, text) ==
    LET toks == Tokens(text)
    IN  [j \in 1..Len(vocab) |-> CountOf(vocab[j], toks)]

\* the vectorizer as constructed in __init__: not fitted
FreshVectorizer == [fitted |-> FALSE, vocab |-> <<>>]

\* vectorizer.fit_transform(documents): raises ValueError on an empty vocabulary
FitRaises(docs) == TermsOf(docs) = {}

FitVocabulary(docs) == SortTerms(TermsOf(docs))

\* vectorizer.transform([query]): raises NotFittedError when not fitted
TransformRaises(vec) == ~vec.fitted

-----------------------------------------------------------------------------
(* faiss.IndexFlatL2 *)

\* self.index = None
NoIndex == [present |-> FALSE, d |-> 0, vecs |-> <<>>]

\* IndexFlatL2(dimension) followed by add(vectors)
NewIndex(vocab, docs) ==
    [present |-> TRUE,
     d       |-> Len(vocab),
     vecs    |-> [i \in 1..Len(docs) |-> Vectorize(vocab, docs[i])]]

\* index.ntotal, 0 when there is no index
IndexCount(ix) == IF ix.present THEN Len(ix.vecs) ELSE 0

RECURSIVE SumSq(_, _, _)
SumSq(v, w, j) ==
    IF j = 0 THEN 0
    ELSE (v[j] - w[j]) * (v[j] - w[j]) + SumSq(v, w, j - 1)

\* squared L2 distance of two vectors of the same dimension
L2(v, w) == SumSq(v, w, Len(v))

\* The label rows IndexFlatL2.search(q, k) can return for k >= 1: the
\* min(k, ntotal) nearest positions by non-decreasing distance (the order
\* among equal distances is the library's), padded with -1 (here 0).
RECURSIVE NearestFirst(_, _, _)
NearestFirst(ix, q, S) ==
    IF S = {} THEN {<<>>}
    ELSE UNION {{<<x>> \o p : p \in NearestFirst(ix, q, S \ {x})} :
                x \in {y \in S : \A z \in S : L2(ix.vecs[y], q) <= L2(ix.vecs[z], q)}}

FaissLabels(ix, q, k) ==
    LET n == Len(ix.vecs)
    IN  {[j \in 1..k |-> IF j <= n THEN p[j] ELSE 0] :
            p \in NearestFirst(ix, q, 1..n)}

-----------------------------------------------------------------------------
(* Inputs *)

TxtEmpty == <<>>
\* 24 characters: longer than one chunk
TxtLong ==
    <<"a", "b", " ", "b", "a", " ", "a", "b", " ", "b", "a", " ",
      "a", "b", " ", "b", "a", ".", " ", "a", "b", " ", "b", "a">>
\* 21 blanks: longer than one chunk, nothing left after strip()
TxtBlank == [i \in 1..(ChunkSize + 1) |-> " "]

\* add_document's optional metadata argument; main.py passes none
NoExtra == [given |-> FALSE, fields |-> [filename |-> ""]]
Extras == {NoExtra}
\* a metadata argument with a key named like a provenance field
ExtraChunkId == [given |-> TRUE, fields |-> [chunk_id |-> 0]]
\* the metadata arguments of a caller that passes one
DirectExtras == {NoExtra, ExtraChunkId}

\* the (content, filename) pairs upload_files hands to add_document
Uploads ==
    {[content |-> TxtEmpty, filename |-> "b.txt"],
     [content |-> TxtLong,  filename |-> "c.txt"],
     [content |-> TxtBlank, filename |-> "d.txt"]}

Queries == {<<"b", "a">>}
Ks == {0, 1, DefaultK}

-----------------------------------------------------------------------------
(* The store held in memory and the artifacts on disk *)

Mem ==
    [index |-> index, documents |-> documents, metadata |-> metadata,
     vectorizer |-> vectorizer, is_trained |-> is_trained]

\* VectorStore.__init__ before _load_index
FreshMem ==
    [index |-> NoIndex, documents |-> <<>>, metadata |-> <<>>,
     vectorizer |-> FreshVectorizer, is_trained |-> FALSE]

\* the store in memory is m
SetMemNow(m) ==
    /\ index = m.index
    /\ documents = m.documents
    /\ metadata = m.metadata
    /\ vectorizer = m.vectorizer
    /\ is_trained = m.is_trained

SetMem(m) ==
    /\ index' = m.index
    /\ documents' = m.documents
    /\ metadata' = m.metadata
    /\ vectorizer' = m.vectorizer
    /\ is_trained' = m.is_trained

\* index.faiss, documents.pkl, metadata.pkl, vectorizer.pkl, in the order
\* _save_index writes, _load_index reads and clear removes them
Artifacts == <<"index", "documents", "metadata", "vectorizer">>

Absent(f) ==
    [st |-> "absent",
     data |-> CASE f = "index" -> NoIndex
                [] f = "vectorizer" -> FreshVectorizer
                [] OTHER -> <<>>]

\* a file cut short by an interrupted or failed write
Corrupt(f) == [Absent(f) EXCEPT !.st = "corrupt"]

EmptyDisk == [f \in {Artifacts[i] : i \in 1..4} |-> Absent(f)]

\* what _save_index dumps into artifact f
FieldOf(m, f) ==
    CASE f = "index" -> m.index
      [] f = "documents" -> m.documents
      [] f = "metadata" -> m.metadata
      [] f = "vectorizer" -> m.vectorizer

\* mutant: the save leaves vectorizer.pkl as it was
WrittenSkipsVectorizer(m, f) ==
    IF f = "vectorizer" THEN disk[f] ELSE [st |-> "ok", data |-> FieldOf(m, f)]

Written(m, f) == [st |-> "ok", data |-> FieldOf(m, f)]

-----------------------------------------------------------------------------
(* VectorStore._load_index *)

\* mutant: the except branch only logs
LoadExceptKeepsPartial(partial) == partial

\* the except branch: initialize empty store on error
LoadExcept(partial) ==
    [partial EXCEPT !.index = NoIndex, !.documents = <<>>,
                    !.metadata = <<>>, !.is_trained = FALSE]

\* the fields read before the first artifact that fails to deserialize
LoadPartial(fresh, d, firstBad) ==
    [index      |-> IF firstBad > 1 THEN d["index"].data ELSE fresh.index,
     documents  |-> IF firstBad > 2 THEN d["documents"].data ELSE fresh.documents,
     metadata   |-> IF firstBad > 3 THEN d["metadata"].data ELSE fresh.metadata,
     vectorizer |-> IF firstBad > 4 THEN d["vectorizer"].data ELSE fresh.vectorizer,
     is_trained |-> IF firstBad > 4 THEN TRUE ELSE fresh.is_trained]

AllExist(d) == \A i \in 1..4 : d[Artifacts[i]].st # "absent"

LoadIndex(fresh, d) ==
    IF ~AllExist(d)
    THEN fresh
    ELSE LET bad == {i \in 1..4 : d[Artifacts[i]].st = "corrupt"}
         IN  IF bad = {}
             THEN LoadPartial(fresh, d, 5)
             ELSE LoadExcept(LoadPartial(fresh, d, CHOOSE i \in bad : \A j \in bad : i <= j))

\* the store a process constructed on disk d holds
Constructed(d) == LoadIndex(FreshMem, d)

-----------------------------------------------------------------------------
(* VectorStore.add_document, _build_index *)

ChunkMetadata(filename, i, n, extra) ==
    LET base == [filename |-> filename, chunk_id |-> i, total_chunks |-> n]
    IN  IF extra.given
        THEN [k \in DOMAIN base |->
                 IF k \in DOMAIN extra.fields THEN extra.fields[k] ELSE base[k]]
        ELSE base

\* mutant: the new chunks and records go in front of the old ones
AppendedInFront(m, content, filename, extra) ==
    LET chunks == ChunkText(content)
    IN  [m EXCEPT
           !.documents = chunks \o m.documents,
           !.metadata =
               [i \in 1..Len(chunks) |->
                   ChunkMetadata(filename, i - 1, Len(chunks), extra)] \o m.metadata]

\* the for loop: append every chunk and its metadata
Appended(m, content, filename, extra) ==
    LET chunks == ChunkText(content)
    IN  [m EXCEPT
           !.documents = m.documents \o chunks,
           !.metadata = m.metadata \o
               [i \in 1..Len(chunks) |->
                   ChunkMetadata(filename, i - 1, Len(chunks), extra)]]

BuildRaises(m) == Len(m.documents) # 0 /\ FitRaises(m.documents)

\* mutant: _build_index forgets self.is_trained = True
BuildIndexForgetsTrained(m) ==
    IF Len(m.documents) = 0
    THEN m
    ELSE LET vocab == FitVocabulary(m.documents)
         IN  [m EXCEPT
                !.vectorizer = [fitted |-> TRUE, vocab |-> vocab],
                !.index = NewIndex(vocab, m.documents)]

\* _build_index when it does not raise
BuildIndex(m) ==
    IF Len(m.documents) = 0
    THEN m
    ELSE LET vocab == FitVocabulary(m.documents)
         IN  [m EXCEPT
                !.vectorizer = [fitted |-> TRUE, vocab |-> vocab],
                !.index = NewIndex(vocab, m.documents),
                !.is_trained = TRUE]

-----------------------------------------------------------------------------
(* VectorStore.search, get_stats *)

NoResult ==
    [kind |-> "none", hits |-> <<>>, q |-> <<>>, k |-> 0,
     total_documents |-> 0, is_trained |-> FALSE, unique_files |-> 0]

\* "No documents available for search."
NoDocuments(q, k) == [NoResult EXCEPT !.kind = "nodocs", !.q = q, !.k = k]

\* "Search error: ..." returned by the except branch
SearchError(q, k) == [NoResult EXCEPT !.kind = "error", !.q = q, !.k = k]

\* the joined "From <filename>: <chunk>" entries, by position in the store
Hits(q, k, hits) == [NoResult EXCEPT !.kind = "hits", !.q = q, !.k = k, !.hits = hits]

\* the positions the for loop keeps: every label that is not -1
RECURSIVE ValidLabels(_)
ValidLabels(labels) ==
    IF labels = <<>> THEN <<>>
    ELSE IF Head(labels) # 0
         THEN <<Head(labels)>> \o ValidLabels(Tail(labels))
         ELSE ValidLabels(Tail(labels))

\* the for loop over indices[0]: documents[idx] or metadata[idx] raises
\* IndexError for a label beyond the list
Collect(m, q, k, labels) ==
    LET kept == ValidLabels(labels)
    IN  IF \E j \in 1..Len(kept) :
              kept[j] > Len(m.documents) \/ kept[j] > Len(m.metadata)
        THEN SearchError(q, k)
        ELSE Hits(q, k, kept)

\* the string search returns is empty: "\n\n".join([])
EmptyString(r) == r.kind = "hits" /\ r.hits = <<>>

\* mutant: search does not test for an untrained or empty store
SearchOutcomesUnguarded(m, q, k) ==
    IF TransformRaises(m.vectorizer) \/ ~m.index.present
    THEN {SearchError(q, k)}
    ELSE LET qv == Vectorize(m.vectorizer.vocab, q)
             kk == Min2(k, Len(m.documents))
         IN  IF Len(qv) # m.index.d
             THEN {SearchError(q, k)}
             ELSE IF kk <= 0
             THEN {SearchError(q, k), Hits(q, k, <<>>)}
             ELSE {Collect(m, q, k, labels) : labels \in FaissLabels(m.index, qv, kk)}

\* Every result search(q, k) can return on store m.  faiss's Python wrapper
\* asserts d == self.d; for k <= 0 it asserts k > 0 in current releases and
\* returns an empty row in old ones.
SearchOutcomes(m, q, k) ==
    IF ~m.is_trained \/ Len(m.documents) = 0
    THEN {NoDocuments(q, k)}
    ELSE IF TransformRaises(m.vectorizer) \/ ~m.index.present
    THEN {SearchError(q, k)}
    ELSE LET qv == Vectorize(m.vectorizer.vocab, q)
             kk == Min2(k, Len(m.documents))
         IN  IF Len(qv) # m.index.d
             THEN {SearchError(q, k)}
             ELSE IF kk <= 0
             THEN {SearchError(q, k), Hits(q, k, <<>>)}
             ELSE {Collect(m, q, k, labels) : labels \in FaissLabels(m.index, qv, kk)}

GetStats(m) ==
    [NoResult EXCEPT
       !.kind = "stats",
       !.total_documents = Len(m.documents),
       !.is_trained = m.is_trained,
       !.unique_files =
           Cardinality({m.metadata[i].filename : i \in 1..Len(m.metadata)})]

-----------------------------------------------------------------------------
(* The process: construction, the API calls, the steps of _save_index and  *)
(* a crash of the server process                                           *)

SavePcs == <<"save_index", "save_documents", "save_metadata", "save_vectorizer">>

Saving == \E i \in 1..4 : pc = SavePcs[i]

SaveStep == CHOOSE i \in 1..4 : pc = SavePcs[i]

\* the last call was clear ("clear_again": so was the call before it)
ClearedLast == lastOp \in {"clear", "clear_again"}

NoCrash == [inSave |-> FALSE, old |-> FreshMem, new |-> FreshMem]

\* the requests the server is handling
RequestIds == 1..MaxRequests

NoRequest ==
    [kind |-> "none", pc |-> "none", upload |-> CHOOSE u \in Uploads : TRUE,
     processed_content |-> <<>>]

NoRequests == [r \in RequestIds |-> NoRequest]

\* uploads/ before any upload
NoFiles == <<>>

\* before the server process is started on an empty store_path
StoreDown ==
    /\ pc = "down"
    /\ index = NoIndex
    /\ documents = <<>>
    /\ metadata = <<>>
    /\ vectorizer = FreshVectorizer
    /\ is_trained = FALSE
    /\ disk = EmptyDisk
    /\ lastOp = "none"
    /\ lastThrew = FALSE
    /\ saveFailed = FALSE
    /\ saveStart = EmptyDisk
    /\ result = NoResult
    /\ crash = NoCrash
    /\ faults = 0

Init ==
    /\ StoreDown
    /\ chunker = NoCall
    /\ requests = NoRequests
    /\ running = 0
    /\ uploads_dir = NoFiles

\* vector_store = VectorStore() at import of main.py
Construct ==
    /\ pc = "down"
    /\ SetMem(Constructed(disk))
    /\ pc' = "idle"
    /\ lastOp' = "construct"
    /\ lastThrew' = FALSE
    /\ saveFailed' = FALSE
    /\ saveStart' = EmptyDisk
    /\ result' = NoResult
    /\ UNCHANGED <<disk, crash, faults>>
    /\ UNCHANGED others

\* add_document up to the call of _save_index
AddDocument(u, extra) ==
    /\ pc = "idle"
    /\ Len(documents) + Len(ChunkText(u.content)) <= MaxChunks
    /\ LET app == Appended(Mem, u.content, u.filename, extra)
           built == BuildIndex(app)
       IN  IF BuildRaises(app)
           THEN /\ SetMem(app)
                /\ pc' = "idle"
                /\ lastThrew' = TRUE
                /\ saveStart' = EmptyDisk
           ELSE /\ SetMem(built)
                /\ pc' = IF built.index.present THEN SavePcs[1] ELSE "idle"
                /\ lastThrew' = FALSE
                /\ saveStart' = IF built.index.present THEN disk ELSE EmptyDisk
    /\ lastOp' = "add"
    /\ saveFailed' = FALSE
    /\ result' = NoResult
    /\ crash' = NoCrash
    /\ UNCHANGED <<disk, faults>>
    /\ UNCHANGED others

\* one write of _save_index; after the last one add_document returns
SaveArtifact ==
    /\ Saving
    /\ disk' = [disk EXCEPT ![Artifacts[SaveStep]] = Written(Mem, Artifacts[SaveStep])]
    /\ pc' = IF SaveStep < 4 THEN SavePcs[SaveStep + 1] ELSE "idle"
    /\ saveStart' = IF SaveStep < 4 THEN saveStart ELSE EmptyDisk
    /\ UNCHANGED <<index, documents, metadata, vectorizer, is_trained,
                   lastOp, lastThrew, saveFailed, result, crash, faults>>
    /\ UNCHANGED others

\* a write of _save_index raises: logged, the rest of the save is skipped
\* and add_document returns normally; the file is untouched or cut short
SaveArtifactFails ==
    /\ Saving
    /\ faults < MaxFaults
    /\ faults' = faults + 1
    /\ \E torn \in BOOLEAN :
          disk' = IF torn
                  THEN [disk EXCEPT ![Artifacts[SaveStep]] = Corrupt(Artifacts[SaveStep])]
                  ELSE disk
    /\ pc' = "idle"
    /\ saveFailed' = TRUE
    /\ saveStart' = EmptyDisk
    /\ UNCHANGED <<index, documents, metadata, vectorizer, is_trained,
                   lastOp, lastThrew, result, crash>>
    /\ UNCHANGED others

\* mutant: clear removes no file
RemovedNothing(d, failAt) == d

\* the artifacts left by clear's loop when os.remove raises at the
\* failAt-th file (0: no failure)
Removed(d, failAt) ==
    [f \in DOMAIN d |->
        IF failAt = 0 \/ (\E i \in 1..4 : Artifacts[i] = f /\ i < failAt)
        THEN Absent(f)
        ELSE d[f]]

\* mutant: clear forgets self.documents = []
ClearedKeepsDocuments(m) ==
    [m EXCEPT !.index = NoIndex, !.metadata = <<>>, !.is_trained = FALSE]

Cleared(m) ==
    [m EXCEPT !.index = NoIndex, !.documents = <<>>,
              !.metadata = <<>>, !.is_trained = FALSE]

Clear ==
    /\ pc = "idle"
    /\ \E failAt \in 0..4 :
          /\ failAt # 0 => disk[Artifacts[failAt]].st # "absent" /\ faults < MaxFaults
          /\ faults' = IF failAt # 0 THEN faults + 1 ELSE faults
          /\ disk' = Removed(disk, failAt)
          /\ saveFailed' = (failAt # 0)
    /\ SetMem(Cleared(Mem))
    /\ pc' = "idle"
    /\ lastOp' = IF ClearedLast THEN "clear_again" ELSE "clear"
    /\ lastThrew' = FALSE
    /\ saveStart' = EmptyDisk
    /\ result' = NoResult
    /\ crash' = NoCrash
    /\ UNCHANGED others

Search(q, k) ==
    /\ pc = "idle"
    /\ \E r \in SearchOutcomes(Mem, q, k) : result' = r
    /\ lastOp' = "search"
    /\ lastThrew' = FALSE
    /\ saveFailed' = FALSE
    /\ saveStart' = EmptyDisk
    /\ crash' = NoCrash
    /\ UNCHANGED <<pc, index, documents, metadata, vectorizer, is_trained, disk, faults>>
    /\ UNCHANGED others

Stats ==
    /\ pc = "idle"
    /\ result' = GetStats(Mem)
    /\ lastOp' = "stats"
    /\ lastThrew' = FALSE
    /\ saveFailed' = FALSE
    /\ saveStart' = EmptyDisk
    /\ crash' = NoCrash
    /\ UNCHANGED <<pc, index, documents, metadata, vectorizer, is_trained, disk, faults>>
    /\ UNCHANGED others

\* the server process dies; a write in progress leaves its file cut short
Crash ==
    /\ pc # "down"
    /\ Saving => faults < MaxFaults
    /\ faults' = IF Saving THEN faults + 1 ELSE faults
    /\ \E torn \in BOOLEAN :
          /\ torn => Saving
          /\ disk' = IF torn
                     THEN [disk EXCEPT ![Artifacts[SaveStep]] = Corrupt(Artifacts[SaveStep])]
                     ELSE disk
    /\ crash' = IF Saving
                THEN [inSave |-> TRUE, old |-> Constructed(saveStart), new |-> Mem]
                ELSE NoCrash
    /\ SetMem(FreshMem)
    /\ pc' = "down"
    /\ saveStart' = EmptyDisk
    /\ lastOp' = "crash"
    /\ lastThrew' = FALSE
    /\ saveFailed' = FALSE
    /\ result' = NoResult
    /\ UNCHANGED others

Next ==
    \/ Construct
    \/ \E u \in Uploads, extra \in Extras : AddDocument(u, extra)
    \/ SaveArtifact
    \/ SaveArtifactFails
    \/ Clear
    \/ \E q \in Queries, k \in Ks : Search(q, k)
    \/ Stats
    \/ Crash

Spec == Init /\ [][Next]_vars

-----------------------------------------------------------------------------
(* The store under a caller that hands add_document a metadata argument    *)

DirectNext ==
    \/ Construct
    \/ \E u \in Uploads, extra \in DirectExtras : AddDocument(u, extra)
    \/ SaveArtifact
    \/ Clear
    \/ \E q \in Queries : Search(q, DefaultK)
    \/ Crash

DirectSpec == Init /\ [][DirectNext]_vars

-----------------------------------------------------------------------------
(* The request handlers of main.py on uvicorn's event loop.  Every handler *)
(* is a coroutine of the one loop thread: it runs until it awaits or       *)
(* returns, and only then another handler runs.  The store calls are       *)
(* followed statement by statement.                                        *)

\* the handler positions at which the coroutine is suspended in an await:
\* content = await file.read() is the only await of main.py
\* mutant: add_document would also give up the loop before _build_index
AwaitsInsideAdd(p) == p \in {"await_read", "add_build"}

Awaits(p) == p = "await_read"

UploadRequest(u) == [NoRequest EXCEPT !.kind = "upload", !.pc = "new", !.upload = u]

ChatRequest == [NoRequest EXCEPT !.kind = "chat", !.pc = "new"]

\* the loop can run a step of request r
Runnable(r) ==
    \/ running = r
    \/ running = 0 /\ (requests[r].pc = "new" \/ Awaits(requests[r].pc))

\* request r moves to position p and keeps or gives up the loop
Advance(r, p) ==
    /\ requests' = [requests EXCEPT ![r].pc = p]
    /\ running' = IF p = "done" \/ Awaits(p) THEN 0 ELSE r

\* an upload of four bytes that ends in a CRLF line end
TxtShort == <<"b", "a", "\r", "\n">>

\* the files the handlers receive: those of Uploads and one more that
\* carries the filename of another
ServerUploads == Uploads \cup {[content |-> TxtShort, filename |-> "c.txt"]}

\* open(file_path, "wb"): the file is created, or cut to no bytes
Opened(dir, name) ==
    [f \in DOMAIN dir \cup {name} |-> IF f = name THEN <<>> ELSE dir[f]]

\* buffer.write(content) and the close of the with block: the handle was
\* opened at offset 0, nothing moved it, and a write cuts nothing off
WrittenAtStart(bytes, content) ==
    content \o SubSeq(bytes, Len(content) + 1, Len(bytes))

\* open(file_path, 'r', encoding='utf-8').read(): text mode turns "\r\n"
\* and "\r" into "\n"
RECURSIVE ReadText(_)
ReadText(bytes) ==
    IF bytes = <<>> THEN <<>>
    ELSE IF Head(bytes) = "\r"
         THEN <<"\n">> \o ReadText(IF Len(bytes) >= 2 /\ bytes[2] = "\n"
                                    THEN SubSeq(bytes, 3, Len(bytes))
                                    ELSE Tail(bytes))
         ELSE <<Head(bytes)>> \o ReadText(Tail(bytes))

\* process_file on a .txt path: _process_txt
ProcessFile(dir, name) == ReadText(dir[name])

histVars == <<pc, lastOp, lastThrew, saveFailed, saveStart, crash, faults, chunker>>

\* the server is up on an empty store_path and the requests have arrived
ServerInit ==
    /\ pc = "idle"
    /\ SetMemNow(FreshMem)
    /\ disk = EmptyDisk
    /\ lastOp = "construct"
    /\ lastThrew = FALSE
    /\ saveFailed = FALSE
    /\ saveStart = EmptyDisk
    /\ result = NoResult
    /\ crash = NoCrash
    /\ faults = 0
    /\ chunker = NoCall
    /\ requests \in [RequestIds ->
                        {UploadRequest(u) : u \in ServerUploads} \cup {ChatRequest}]
    /\ running = 0
    /\ uploads_dir = NoFiles

\* upload_files up to content = await file.read(): the file is open
UploadOpen(r) ==
    /\ requests[r].kind = "upload" /\ requests[r].pc = "new"
    /\ Runnable(r)
    /\ uploads_dir' = Opened(uploads_dir, requests[r].upload.filename)
    /\ Advance(r, "await_read")
    /\ UNCHANGED <<index, documents, metadata, vectorizer, is_trained, disk, result>>
    /\ UNCHANGED histVars

\* the read completed: buffer.write, process_file, the call of add_document
UploadResume(r) ==
    /\ requests[r].pc = "await_read"
    /\ Runnable(r)
    /\ LET name == requests[r].upload.filename
           dir == [uploads_dir EXCEPT
                      ![name] = WrittenAtStart(@, requests[r].upload.content)]
       IN  /\ uploads_dir' = dir
           /\ requests' = [requests EXCEPT
                              ![r].pc = "add_append",
                              ![r].processed_content = ProcessFile(dir, name)]
    /\ running' = r
    /\ UNCHANGED <<index, documents, metadata, vectorizer, is_trained, disk, result>>
    /\ UNCHANGED histVars

\* add_document: _chunk_text and the for loop
AddAppend(r) ==
    /\ requests[r].pc = "add_append"
    /\ Runnable(r)
    /\ SetMem(Appended(Mem, requests[r].processed_content,
                        requests[r].upload.filename, NoExtra))
    /\ Advance(r, "add_build")
    /\ UNCHANGED <<disk, result, uploads_dir>>
    /\ UNCHANGED histVars

\* add_document: _build_index; what it raises upload_files catches
AddBuild(r) ==
    /\ requests[r].pc = "add_build"
    /\ Runnable(r)
    /\ IF BuildRaises(Mem)
       THEN /\ SetMem(Mem)
            /\ Advance(r, "done")
       ELSE /\ SetMem(BuildIndex(Mem))
            /\ Advance(r, IF BuildIndex(Mem).index.present THEN "add_save" ELSE "done")
    /\ UNCHANGED <<disk, result>>
    /\ UNCHANGED <<histVars, uploads_dir>>

\* add_document: _save_index, then upload_files returns
AddSave(r) ==
    /\ requests[r].pc = "add_save"
    /\ Runnable(r)
    /\ disk' = [f \in DOMAIN disk |-> Written(Mem, f)]
    /\ Advance(r, "done")
    /\ UNCHANGED <<index, documents, metadata, vectorizer, is_trained, result>>
    /\ UNCHANGED <<histVars, uploads_dir>>

\* chat up to vector_store.search: the is_trained / len(documents) test
\* and the vectorizing of the query
ChatSearch(r) ==
    /\ requests[r].kind = "chat" /\ requests[r].pc = "new"
    /\ Runnable(r)
    /\ Advance(r, "search_index")
    /\ UNCHANGED <<index, documents, metadata, vectorizer, is_trained, disk, result>>
    /\ UNCHANGED <<histVars, uploads_dir>>

\* search: index.search and the join with documents and metadata
ChatCollect(r) ==
    /\ requests[r].pc = "search_index"
    /\ Runnable(r)
    /\ \E q \in Queries : \E res \in SearchOutcomes(Mem, q, DefaultK) : result' = res
    /\ Advance(r, "done")
    /\ UNCHANGED <<index, documents, metadata, vectorizer, is_trained, disk>>
    /\ UNCHANGED <<histVars, uploads_dir>>

ServerNext ==
    \/ \E r \in RequestIds : UploadOpen(r)
    \/ \E r \in RequestIds : UploadResume(r)
    \/ \E r \in RequestIds : AddAppend(r)
    \/ \E r \in RequestIds : AddBuild(r)
    \/ \E r \in RequestIds : AddSave(r)
    \/ \E r \in RequestIds : ChatSearch(r)
    \/ \E r \in RequestIds : ChatCollect(r)

ServerSpec == ServerInit /\ [][ServerNext]_vars

-----------------------------------------------------------------------------
(* _chunk_text on its own: every text of ChunkTexts under every pair of    *)
(* ChunkParams                                                             *)

ChunkInit ==
    /\ StoreDown
    /\ chunker \in {Call(t, p[1], p[2]) : t \in ChunkTexts, p \in ChunkParams}
    /\ requests = NoRequests
    /\ running = 0
    /\ uploads_dir = NoFiles

ChunkNext ==
    \/ ChunkShortText
    \/ ChunkEnterLoop
    \/ ChunkIterate
    \/ ChunkReturn

ChunkSpec == ChunkInit /\ [][ChunkNext]_vars

-----------------------------------------------------------------------------
(* Properties *)

\* an artifact set _load_index reads completely
AllReadable(d) == \A i \in 1..4 : d[Artifacts[i]].st = "ok"

EmptyStore ==
    /\ ~index.present
    /\ documents = <<>>
    /\ metadata = <<>>
    /\ ~is_trained

\* the step is add_document raising
AddThrows == pc = "idle" /\ lastOp' = "add" /\ lastThrew'

\* the step is add_document returning normally: right after _build_index
\* when _save_index has nothing to do, else at the end of _save_index
AddReturns ==
    \/ pc = "idle" /\ lastOp' = "add" /\ ~lastThrew' /\ pc' = "idle"
    \/ Saving /\ pc' = "idle"

ClearStep == pc = "idle" /\ lastOp' \in {"clear", "clear_again"} /\ lastOp' # lastOp

\* C1: if add_document raises, the chunk texts, the metadata, the index and
\* the chunk count get_stats reports are what they were before the call.
C1_FailedAddLeavesStoreUnchanged ==
    [][AddThrows =>
          /\ documents' = documents
          /\ metadata' = metadata
          /\ index' = index
          /\ GetStats(Mem').total_documents = GetStats(Mem).total_documents]_vars

\* C2: whenever no call is running, the number of metadata records equals
\* the number of vectors in the index (0 without an index) and the number
\* of chunk texts.
C2_CountsAligned ==
    pc = "idle" =>
        /\ Len(metadata) = IndexCount(index)
        /\ Len(metadata) = Len(documents)

\* C3: a store constructed after a crash during _save_index is the store
\* loadable before the save began, the store being saved, or empty.
C3_CrashSafeSave ==
    (pc = "idle" /\ lastOp = "construct" /\ crash.inSave) =>
        Mem \in {crash.old, crash.new, FreshMem}

\* C4: after add_document returned from a save in which no write failed, a
\* store constructed on the same location has the same chunk texts,
\* metadata, index and vectorizer, and every search returns the same
\* results on both.
C4_RoundTrip ==
    (pc = "idle" /\ lastOp = "add" /\ ~lastThrew /\ ~saveFailed /\ index.present) =>
        LET loaded == Constructed(disk)
        IN  /\ loaded.documents = documents
            /\ loaded.metadata = metadata
            /\ loaded.index = index
            /\ loaded.is_trained = is_trained
            /\ loaded.vectorizer = vectorizer
            /\ \A q \in Queries, k \in Ks :
                  SearchOutcomes(loaded, q, k) = SearchOutcomes(Mem, q, k)

C4_Witness ==
    /\ pc = "idle" /\ lastOp = "add" /\ ~lastThrew /\ ~saveFailed
    /\ Len(documents) >= 2
    /\ AllReadable(disk)

\* C5: a construction that finds all artifacts readable but with an index
\* whose vector count differs from the metadata or chunk-text count leaves
\* the store empty.
C5_LoadValidatesCounts ==
    (/\ pc = "idle" /\ lastOp = "construct"
     /\ AllReadable(disk)
     /\ \/ IndexCount(disk["index"].data) # Len(disk["metadata"].data)
        \/ IndexCount(disk["index"].data) # Len(disk["documents"].data))
    => EmptyStore

\* C6: a construction that finds an artifact missing or unreadable leaves
\* the store completely empty.
C6_FailedLoadStartsEmpty ==
    (pc = "idle" /\ lastOp = "construct" /\ ~AllReadable(disk)) => EmptyStore

C6_Witness ==
    /\ pc = "idle" /\ lastOp = "construct"
    /\ disk["index"].st = "ok"
    /\ \E i \in 2..4 : disk[Artifacts[i]].st # "ok"

\* C7: a clear() that follows a clear(), neither with a failing removal,
\* changes neither the store in memory nor the artifacts, does not raise,
\* and leaves get_stats' chunk count at 0.
C7_ClearIdempotent ==
    [][(ClearedLast /\ ~saveFailed /\ ClearStep /\ ~saveFailed') =>
          /\ Mem' = Mem
          /\ disk' = disk
          /\ ~lastThrew'
          /\ GetStats(Mem').total_documents = 0]_vars

C7_Witness ==
    /\ pc = "idle" /\ lastOp = "clear_again" /\ ~saveFailed
    /\ vectorizer.fitted

TrainedSteps ==
    /\ (pc = "down" /\ pc' = "idle") => (is_trained' <=> AllReadable(disk))
    /\ ClearStep => ~is_trained'
    /\ AddThrows => (is_trained' <=> is_trained)
    /\ (pc = "idle" /\ lastOp' \in {"search", "stats"}) => (is_trained' <=> is_trained)

\* C9 as claimed: is_trained is set by construction iff a snapshot was
\* loaded, set by every add_document that returns, reset by every clear and
\* left alone by search, get_stats and an add_document that raises.
C9_TrainedStateMachine ==
    [][TrainedSteps /\ (AddReturns => is_trained')]_vars

\* C9: the same, with an add_document that returns leaving is_trained set
\* exactly when the store then holds a chunk.
C9_TrainedIffChunks ==
    [][TrainedSteps /\ (AddReturns => (is_trained' <=> Len(documents') > 0))]_vars

C9_Witness ==
    /\ pc = "idle" /\ lastOp = "add" /\ ~lastThrew
    /\ ~is_trained

\* the distance of the chunk at position i to the query of the last search
ResultDistance(i) == L2(index.vecs[i], Vectorize(vectorizer.vocab, result.q))

\* C10: on a store of n chunks search(query, k) returns at most k results
\* in order of non-decreasing distance to the query, an empty result and no
\* error for k = 0, and exactly n results for k > n.
C10_SearchTopK ==
    (pc = "idle" /\ lastOp = "search") =>
        LET n == Len(documents)
            hits == result.hits
        IN  /\ Len(hits) <= result.k
            /\ \A i, j \in 1..Len(hits) :
                  i < j => ResultDistance(hits[i]) <= ResultDistance(hits[j])
            /\ result.k = 0 => (result.kind # "error" /\ hits = <<>>)
            /\ result.k > n => (result.kind # "error" /\ Len(hits) = n)

\* C11 as claimed: search on a store that holds no chunk returns an empty
\* result, with no hit and no text, and does not fail.
C11_EmptyStoreSearchEmpty ==
    (pc = "idle" /\ lastOp = "search" /\ Len(documents) = 0) => EmptyString(result)

\* C11: search on a store that holds no chunk returns no hit and does not
\* fail; what it returns is the notice "No documents available for search."
C11_EmptyStoreSearchNotice ==
    (pc = "idle" /\ lastOp = "search" /\ Len(documents) = 0) =>
        /\ result.kind = "nodocs"
        /\ result.hits = <<>>

C11_Witness ==
    /\ pc = "idle" /\ lastOp = "search" /\ Len(documents) = 0
    /\ vectorizer.fitted
    /\ result.kind = "nodocs"

\* C16: when a write of _save_index failed, add_document has returned
\* without raising, the store in memory holds one index vector and one
\* metadata record per chunk text, and search and get_stats work on it.
C16_SaveFailureHarmless ==
    (pc = "idle" /\ lastOp = "add" /\ saveFailed) =>
        /\ ~lastThrew
        /\ IndexCount(index) = Len(documents)
        /\ Len(metadata) = Len(documents)
        /\ \A q \in Queries :
              \A r \in SearchOutcomes(Mem, q, DefaultK) : r.kind = "hits"
        /\ GetStats(Mem).total_documents = Len(documents)

\* a is a prefix of b
IsPrefix(a, b) == Len(a) <= Len(b) /\ SubSeq(b, 1, Len(a)) = a

\* C17: every step of add_document (and of search and get_stats between
\* two add_document calls) leaves the chunk texts and the metadata records
\* it found as a prefix of the sequences after it.
C17_AppendOnly ==
    [][(pc # "down" /\ lastOp' \in {"add", "search", "stats"}) =>
          /\ IsPrefix(documents, documents')
          /\ IsPrefix(metadata, metadata')
          /\ Len(documents') >= Len(documents)]_vars

C17_Witness ==
    /\ pc = "idle" /\ lastOp = "add" /\ ~lastThrew
    /\ Len(documents) = 3
    /\ metadata[1].filename # metadata[3].filename

\* C18: the n metadata records an add_document call appends carry the
\* filename of the call, chunk_id 0, 1, ..., n-1 in order and
\* total_chunks n, whatever metadata argument it was given.
C18_ProvenanceConsistent ==
    [][(pc = "idle" /\ lastOp' = "add") =>
          LET old == Len(metadata)
              n == Len(metadata') - old
          IN  \E u \in Uploads :
                 /\ Len(ChunkText(u.content)) = n
                 /\ \A i \in 1..n :
                       metadata'[old + i] =
                           [filename |-> u.filename, chunk_id |-> i - 1,
                            total_chunks |-> n]]_vars

-----------------------------------------------------------------------------
(* Properties of the handlers, checked under ServerSpec *)

\* request r is inside add_document, after its first append
InMutation(r) == requests[r].pc \in {"add_build", "add_save"}

\* request r is inside search, after its first read of the store
InRead(r) == requests[r].pc = "search_index"

\* C15: while a request is inside add_document no other request is inside
\* add_document or search, the request inside the store is the one the loop
\* is running, and a search never reads the store while an add_document
\* has appended chunks without having rebuilt the index.
C15_MutationsExclusive ==
    /\ \A r1, r2 \in RequestIds :
          (r1 # r2 /\ InMutation(r1)) => ~(InMutation(r2) \/ InRead(r2))
    /\ \A r \in RequestIds : (InMutation(r) \/ InRead(r)) => running = r

C15_Witness ==
    \E r1, r2 \in RequestIds :
        /\ requests[r1].pc = "add_save"
        /\ requests[r2].pc = "await_read"
        /\ Len(documents) >= 2

-----------------------------------------------------------------------------
(* Properties of _chunk_text, checked under ChunkSpec *)

\* the call was made with the parameters the program uses
DefaultCall == chunker.chunk_size = ChunkSize /\ chunker.overlap = Overlap

\* size <= 0 or overlap >= size
Degenerate == chunker.chunk_size <= 0 \/ chunker.overlap >= chunker.chunk_size

\* the character positions of the text inside window w
Positions(w) == {i \in 0..(Len(chunker.text) - 1) : w.start <= i /\ i < w.end}

\* the windows of the iterations whose segment was returned
KeptWindows == {i \in 1..Len(chunker.windows) : chunker.windows[i].kept}

\* C12: a text no longer than size comes back as exactly one segment, the
\* text with leading and trailing whitespace removed.
C12_ShortTextTrimmed ==
    (chunker.pc = "returned" /\ DefaultCall /\ Len(chunker.text) <= chunker.chunk_size) =>
        chunker.chunks = <<Strip(chunker.text)>>

\* C13 as claimed: for a text longer than size chunked with the default
\* size and overlap, two returned segments share at most overlap characters
\* of the text and the windows of the returned segments cover every
\* character position.
C13_SegmentWindowsCoverText ==
    (chunker.pc = "returned" /\ DefaultCall /\ Len(chunker.text) > chunker.chunk_size) =>
        /\ \A i, j \in KeptWindows :
              i # j => Cardinality(Positions(chunker.windows[i]) \cap
                                   Positions(chunker.windows[j])) <= chunker.overlap
        /\ UNION {Positions(chunker.windows[i]) : i \in KeptWindows}
              = 0..(Len(chunker.text) - 1)

\* C13: for a text longer than size chunked with the default size and
\* overlap, two windows of the loop share at most overlap characters of the
\* text, the first window starts at 0 and every other one overlap characters
\* before the end of the one before, the windows cover every character
\* position, and the windows of the returned segments cover every position
\* that holds a character other than whitespace.
C13_WindowsCoverText ==
    (chunker.pc = "returned" /\ DefaultCall /\ Len(chunker.text) > chunker.chunk_size) =>
        LET w == chunker.windows
        IN  /\ \A i, j \in 1..Len(w) :
                  i # j => Cardinality(Positions(w[i]) \cap Positions(w[j]))
                              <= chunker.overlap
            /\ w[1].start = 0
            /\ \A i \in 2..Len(w) : w[i].start = w[i - 1].end - chunker.overlap
            /\ UNION {Positions(w[i]) : i \in 1..Len(w)} = 0..(Len(chunker.text) - 1)
            /\ \A i \in 0..(Len(chunker.text) - 1) :
                  At(chunker.text, i) \notin Whitespace =>
                      \E j \in KeptWindows : i \in Positions(w[j])

C13_Witness ==
    /\ chunker.pc = "returned" /\ DefaultCall
    /\ Cardinality(KeptWindows) >= 2
    /\ Len(chunker.windows) > Cardinality(KeptWindows)
    /\ \E i \in 1..Len(chunker.windows) :
          chunker.windows[i].end < chunker.windows[i].start + chunker.chunk_size

\* C14: a call with size <= 0 or overlap >= size is rejected before it
\* produces a segment.
C14_DegenerateRejected ==
    Degenerate => (chunker.pc \in {"call", "rejected"} /\ chunker.chunks = <<>>)

\* C19: with size > 0 and 0 <= overlap < size every iteration of the loop
\* moves the window start strictly forward.
C19_StartAdvances ==
    [][(/\ chunker.pc = "loop" /\ chunker'.pc = "loop"
        /\ chunker.chunk_size > 0
        /\ 0 <= chunker.overlap /\ chunker.overlap < chunker.chunk_size)
       => chunker'.start > chunker.start]_vars

\* C20: no segment _chunk_text returns is empty after trimming, and no
\* chunk the store holds is.
C20_NoEmptySegment ==
    /\ (chunker.pc = "returned" /\ DefaultCall) =>
          \A i \in 1..Len(chunker.chunks) : Strip(chunker.chunks[i]) # <<>>
    /\ \A i \in 1..Len(documents) : Strip(documents[i]) # <<>>

\* the sentence terminals among the last size/2 characters of the window
\* that starts at start
TerminalsInLastHalf(start) ==
    {i \in (start + chunker.chunk_size - (chunker.chunk_size \div 2))
              ..(start + chunker.chunk_size - 1) :
        ~IndexRaises(chunker.text, i) /\ At(chunker.text, i) \in Terminals}

\* C21: a window that ends before the end of the text is cut right after
\* the last sentence terminal among its last size/2 characters, or at
\* start + size when there is none, and is never longer than size.
C21_SentenceCut ==
    DefaultCall =>
        \A j \in 1..Len(chunker.windows) :
            LET w == chunker.windows[j]
                found == TerminalsInLastHalf(w.start)
            IN  w.start + chunker.chunk_size < Len(chunker.text) =>
                    /\ w.end = IF found # {}
                               THEN SetMax(found) + 1
                               ELSE w.start + chunker.chunk_size
                    /\ w.end - w.start <= chunker.chunk_size


-----------------------------------------------------------------------------
(* Properties of the upload handlers *)

\* request r has read its file back and handed the text to add_document
Ingested(r) ==
    /\ requests[r].kind = "upload"
    /\ requests[r].pc \in {"add_append", "add_build", "add_save", "done"}

\* C22: in every interleaving of the upload requests, the content a
\* request hands to add_document is the text of the bytes that request
\* uploaded, also when two requests carry the same filename.
C22_UploadsKeepTheirOwnBytes ==
    \A r \in RequestIds :
        Ingested(r) =>
            requests[r].processed_content = ReadText(requests[r].upload.content)

====
